---- MODULE Spec2Model ----
(***************************************************************************)
(* Model of build.py, the release builder of lk.                           *)
(*                                                                         *)
(* Python strings that are formatted into the shell command are sequences *)
(* of one-character strings, so that the f-string of line 16 and the       *)
(* word splitting done by the shell that os.system starts (line 17) are    *)
(* computed character by character.  The command line uses the POSIX shell *)
(* syntax VAR=value command, so os.system is modelled as on POSIX: it      *)
(* returns the wait status of the shell, and exit() hands an integer to    *)
(* the operating system, which keeps its low eight bits.                   *)
(***************************************************************************)
EXTENDS Integers, Sequences, FiniteSets, TLC

VARIABLES
    argv,        \* sys.argv of the running process (sequence of strings)
    args,        \* global args     (line 4)
    version,     \* global version  (line 8)
    a,           \* global a        (line 13)
    p,           \* global p        (line 14)
    suffix,      \* global suffix   (line 15)
    cmd,         \* global cmd      (line 16)
    code,        \* global code     (line 17)
    ai,          \* position of the iterator of "for a in arch"
    pi,          \* position of the iterator of "for p in platform"
    pc,          \* "start", "loop", "exited"; "format", "formatted" in SpecPath
    stdout,      \* lines printed by the running process
    calls,       \* compiler invocations made by the running process
    statuses,    \* exit statuses of the compiler invocations of the running process
    exitStatus,  \* exit status of the process as seen by its caller
    files,       \* the file system: path -> <<run, call>> that last wrote it
    run,         \* number of the running process (1 = first run)
    prevCalls,   \* calls of the previous run
    prevStatuses,\* statuses of the previous run
    prevExit,    \* exit status of the previous run
    filesAtStart \* files when the running process started

vars == <<argv, args, version, a, p, suffix, cmd, code, ai, pi, pc, stdout,
          calls, statuses, exitStatus, files, run, prevCalls, prevStatuses,
          prevExit, filesAtStart>>

None == "None"

(* ----------------------------- bounds ---------------------------------- *)
MaxVerLen  == 2   \* longest version string of a builder run (Spec)
MaxNameLen == 4   \* longest version string of the formatting runs (SpecPath)
MaxRuns    == 2   \* number of consecutive runs of the builder

(* characters a version string is made of: plain ones, the blank and '#' *)
VersionChars == {".", "e", "x", " ", "#"}

(* what may follow the version on the command line of the builder *)
ExtraArgs == {<<>>, << <<"x">> >>}

(* exit statuses of the compiler: 0 success, 1 build failure, 2 usage *)
ExitCodes == {0, 1, 2}

(* --------------------------- string helpers ---------------------------- *)
Strings(n) == UNION {[1..k -> VersionChars] : k \in 0..n}

EndsWith(s, t) ==
    /\ Len(s) >= Len(t)
    /\ SubSeq(s, Len(s) - Len(t) + 1, Len(s)) = t

Chars(name) ==
    CASE name = "arm64"   -> <<"a","r","m","6","4">>
      [] name = "amd64"   -> <<"a","m","d","6","4">>
      [] name = "darwin"  -> <<"d","a","r","w","i","n">>
      [] name = "linux"   -> <<"l","i","n","u","x">>
      [] name = "windows" -> <<"w","i","n","d","o","w","s">>

exe == <<".","e","x","e">>

(* ------------------------------ line 10-11 ----------------------------- *)
\* mutant: the architectures listed in the other order
arch_reversed == <<"amd64", "arm64">>

arch == <<"arm64", "amd64">>
platform == <<"darwin", "linux", "windows">>

(* ------------------------------ lines 5-7 ------------------------------ *)
\* mutant: any argument count other than one is rejected
TooFew_exact(n) == n # 2

TooFew(n) == n < 2

\* mutant: the usage error ends the process with the success status
UsageStatus_success == 1 - 1

UsageStatus == 1

(* ------------------------------ line 15 -------------------------------- *)
\* mutant: the suffix is appended for every platform
Suffix_always(pl) == exe

Suffix(pl) == IF pl = "windows" THEN exe ELSE <<>>

(* ------------------------------ line 16 -------------------------------- *)
\* mutant: the number of the run leaks into the file name
OutputPath_stamped(pl, ar, v, sfx) ==
    <<"r","e","l","e","a","s","e","s","/","l","k","-">> \o Chars(pl)
        \o <<"-">> \o Chars(ar) \o <<"-","v">> \o v
        \o (IF run = 1 THEN <<>> ELSE <<"1">>) \o sfx

\* the text after "-o ": releases/lk-{p}-{a}-v{version}{suffix}
OutputPath(pl, ar, v, sfx) ==
    <<"r","e","l","e","a","s","e","s","/","l","k","-">> \o Chars(pl)
        \o <<"-">> \o Chars(ar) \o <<"-","v">> \o v \o sfx

Cmd(pl, ar, v, sfx) ==
    <<"G","O","O","S","=">> \o Chars(pl)
        \o <<" ","G","O","A","R","C","H","=">> \o Chars(ar)
        \o <<" ","g","o"," ","b","u","i","l","d"," ","-","o"," ">>
        \o OutputPath(pl, ar, v, sfx)

(* ------------------------------ line 17 -------------------------------- *)
\* sh -c: the command line is split into words at blanks; a '#' that starts
\* a word starts a comment that runs to the end of the line.
CommentAt(s) ==
    LET hs == {i \in 1..Len(s) : s[i] = "#" /\ (i = 1 \/ s[i-1] = " ")}
    IN  IF hs = {} THEN Len(s) + 1
        ELSE CHOOSE i \in hs : \A j \in hs : i <= j

ShellWords(s) ==
    LET n      == CommentAt(s) - 1
        starts == {i \in 1..n : s[i] # " " /\ (i = 1 \/ s[i-1] = " ")}
        EndOf(i) == CHOOSE j \in i..n :
                       /\ \A k \in i..j : s[k] # " "
                       /\ (j = n \/ s[j+1] = " ")
        Nth(k) == CHOOSE i \in starts :
                       Cardinality({h \in starts : h < i}) = k - 1
    IN  [k \in 1..Cardinality(starts) |-> SubSeq(s, Nth(k), EndOf(Nth(k)))]

\* a word NAME=value before the command name is a variable assignment
IsAssignment(w) == \E i \in 2..Len(w) : w[i] = "="

EqPos(w) == CHOOSE i \in 2..Len(w) : w[i] = "=" /\ \A j \in 2..(i-1) : w[j] # "="

NumAssignments(ws) ==
    LET ns == {n \in 0..Len(ws) : \A i \in 1..n : IsAssignment(ws[i])}
    IN  CHOOSE n \in ns : (n = Len(ws) \/ ~IsAssignment(ws[n+1]))

EnvValue(ws, name) ==
    LET hits == {i \in 1..NumAssignments(ws) :
                    SubSeq(ws[i], 1, EqPos(ws[i]) - 1) = name}
    IN  IF hits = {} THEN None
        ELSE LET i == CHOOSE h \in hits : \A g \in hits : g <= h
             IN  SubSeq(ws[i], EqPos(ws[i]) + 1, Len(ws[i]))

\* go build -o <out> [packages]: what the compiler is started with
Invocation(c) ==
    LET ws   == ShellWords(c)
        n    == NumAssignments(ws)
        argw == SubSeq(ws, n + 1, Len(ws))
    IN  [GOOS   |-> EnvValue(ws, <<"G","O","O","S">>),
         GOARCH |-> EnvValue(ws, <<"G","O","A","R","C","H">>),
         out    |-> IF Len(argw) >= 4 /\ argw[3] = <<"-","o">> THEN argw[4] ELSE None,
         pkgs   |-> IF Len(argw) >= 5 THEN SubSeq(argw, 5, Len(argw)) ELSE <<>>]

\* os.system on POSIX returns the wait status: the exit status in bits 8-15
WaitStatus(s) == s * 256

\* exit(n): the operating system keeps the low eight bits
ProcessExit(n) == n % 256

\* mutant: only the value 1 counts as a failure
Failed_one(c) == c = 1

\* line 18: if code != 0
Failed(c) == c # 0

\* a successful compiler run writes its output file, a failed one writes nothing
WriteFile(fs, path, stamp) ==
    [f \in (DOMAIN fs) \cup {path} |-> IF f = path THEN stamp ELSE fs[f]]

(* ------------------------------ messages ------------------------------- *)
UsageMsg == <<"Usage: python3 build.py <version>">>
FailMsg(pl, ar) == <<"Failed to build ", pl, "-", ar>>
OkMsg(pl, ar)   == <<"Successfully built ", pl, "-", ar>>

(* ------------------------------ the builder ---------------------------- *)
ProgName == <<"b","u","i","l","d",".","p","y">>

Init ==
    /\ argv \in {<<ProgName>>}
          \cup {<<ProgName, v>> \o x : v \in Strings(MaxVerLen),
                                       x \in ExtraArgs}
    /\ args = None /\ version = None /\ a = None /\ p = None
    /\ suffix = None /\ cmd = None /\ code = None
    /\ ai = 0 /\ pi = 0
    /\ pc = "start"
    /\ stdout = <<>> /\ calls = <<>>
    /\ statuses = <<>> /\ exitStatus = None
    /\ files = <<>>
    /\ run = 1
    /\ prevCalls = <<>> /\ prevStatuses = <<>> /\ prevExit = None
    /\ filesAtStart = <<>>

\* lines 4-7: too few arguments
Usage ==
    /\ pc = "start"
    /\ TooFew(Len(argv))
    /\ args' = argv
    /\ stdout' = Append(stdout, UsageMsg)
    /\ exitStatus' = ProcessExit(UsageStatus)
    /\ pc' = "exited"
    /\ UNCHANGED <<argv, version, a, p, suffix, cmd, code, ai, pi, calls,
                   statuses, files, run, prevCalls, prevStatuses, prevExit,
                   filesAtStart>>

\* lines 4-8: the version is read and the loops are entered
ReadVersion ==
    /\ pc = "start"
    /\ ~TooFew(Len(argv))
    /\ args' = argv
    /\ version' = argv[2]
    /\ ai' = 1 /\ pi' = 1
    /\ pc' = "loop"
    /\ UNCHANGED <<argv, a, p, suffix, cmd, code, stdout, calls, statuses,
                   exitStatus, files, run, prevCalls, prevStatuses, prevExit,
                   filesAtStart>>

\* lines 13-21: one iteration of the inner loop
Build ==
    /\ pc = "loop"
    /\ ai <= Len(arch)
    /\ \E s \in ExitCodes :
         LET ar  == arch[ai]
             pl  == platform[pi]
             sfx == Suffix(pl)
             c   == Cmd(pl, ar, version, sfx)
             inv == Invocation(c)
             st  == WaitStatus(s)
         IN  /\ a' = ar /\ p' = pl /\ suffix' = sfx /\ cmd' = c
             /\ calls' = Append(calls, inv)
             /\ statuses' = Append(statuses, s)
             /\ code' = st
             /\ files' = IF s = 0 /\ inv.out # None
                         THEN WriteFile(files, inv.out, <<run, Len(calls) + 1>>)
                         ELSE files
             /\ IF Failed(st)
                THEN /\ stdout' = Append(stdout, FailMsg(pl, ar))
                     /\ exitStatus' = ProcessExit(st)
                     /\ pc' = "exited"
                     /\ UNCHANGED <<ai, pi>>
                ELSE /\ stdout' = Append(stdout, OkMsg(pl, ar))
                     /\ IF pi < Len(platform)
                        THEN pi' = pi + 1 /\ ai' = ai
                        ELSE pi' = 1 /\ ai' = ai + 1
                     /\ UNCHANGED <<pc, exitStatus>>
    /\ UNCHANGED <<argv, args, version, run, prevCalls, prevStatuses, prevExit,
                   filesAtStart>>

\* the outer loop is exhausted: the script ends, the interpreter exits with 0
Finish ==
    /\ pc = "loop"
    /\ ai > Len(arch)
    /\ exitStatus' = ProcessExit(0)
    /\ pc' = "exited"
    /\ UNCHANGED <<argv, args, version, a, p, suffix, cmd, code, ai, pi, stdout,
                   calls, statuses, files, run, prevCalls, prevStatuses,
                   prevExit, filesAtStart>>

\* the caller starts the builder again with the same arguments
Rerun ==
    /\ pc = "exited"
    /\ run < MaxRuns
    /\ run' = run + 1
    /\ prevCalls' = calls /\ prevStatuses' = statuses /\ prevExit' = exitStatus
    /\ filesAtStart' = files
    /\ args' = None /\ version' = None /\ a' = None /\ p' = None
    /\ suffix' = None /\ cmd' = None /\ code' = None
    /\ ai' = 0 /\ pi' = 0
    /\ pc' = "start"
    /\ stdout' = <<>> /\ calls' = <<>>
    /\ statuses' = <<>> /\ exitStatus' = None
    /\ UNCHANGED <<argv, files>>

Next == Usage \/ ReadVersion \/ Build \/ Finish \/ Rerun

Spec == Init /\ [][Next]_vars

(* ---------------- the formatting of lines 15-16 on its own ------------- *)
InitPath ==
    /\ argv \in {<<ProgName, v>> : v \in Strings(MaxNameLen)}
    /\ args = argv /\ version = argv[2]
    /\ a = None /\ p = None /\ suffix = None /\ cmd = None /\ code = None
    /\ ai = 0 /\ pi = 0
    /\ pc = "format"
    /\ stdout = <<>> /\ calls = <<>>
    /\ statuses = <<>> /\ exitStatus = None
    /\ files = <<>>
    /\ run = 1
    /\ prevCalls = <<>> /\ prevStatuses = <<>> /\ prevExit = None
    /\ filesAtStart = <<>>

\* lines 13-16 for one target of the matrix
Format ==
    /\ pc = "format"
    /\ \E i \in 1..Len(arch), j \in 1..Len(platform) :
         /\ ai' = i /\ pi' = j
         /\ a' = arch[i] /\ p' = platform[j]
         /\ suffix' = Suffix(platform[j])
         /\ cmd' = Cmd(platform[j], arch[i], version, Suffix(platform[j]))
    /\ pc' = "formatted"
    /\ UNCHANGED <<argv, args, version, code, stdout, calls, statuses,
                   exitStatus, files, run, prevCalls, prevStatuses, prevExit,
                   filesAtStart>>

NextPath == Format

SpecPath == InitPath /\ [][NextPath]_vars

(* ======================= the claims ==================================== *)
\* the order of the matrix as the specification states it
MatrixOrder ==
    << <<"arm64", "darwin">>, <<"arm64", "linux">>, <<"arm64", "windows">>,
       <<"amd64", "darwin">>, <<"amd64", "linux">>, <<"amd64", "windows">> >>

ArchOf(i) == MatrixOrder[i][1]
PlatOf(i) == MatrixOrder[i][2]

\* releases/lk-{p}-{a}-v{v}{suffix} as the specification states it
StatedPath(pl, ar, v) ==
    <<"r","e","l","e","a","s","e","s","/","l","k","-">> \o Chars(pl) \o <<"-">>
        \o Chars(ar) \o <<"-","v">> \o v
        \o (IF pl = "windows" THEN <<".","e","x","e">> ELSE <<>>)

\* the text of a command line after its "-o "
PathText(c) ==
    LET flag == <<" ","-","o"," ">>
        at   == CHOOSE i \in 1..Len(c) :
                   /\ SubSeq(c, i, i + 3) = flag
                   /\ \A j \in 1..(i-1) : SubSeq(c, j, j + 3) # flag
    IN  SubSeq(c, at + 4, Len(c))

AllZero(sts) == \A i \in 1..Len(sts) : sts[i] = 0

FirstFailure(k) ==
    /\ k \in 1..Len(statuses)
    /\ statuses[k] # 0
    /\ \A j \in 1..(k-1) : statuses[j] = 0

OkMsgs(n) == [i \in 1..n |-> <<"Successfully built ", PlatOf(i), "-", ArchOf(i)>>]

Exited == pc = "exited"

\* C1: when a compiler invocation ends with a non-zero status s, the builder
\* terminates with exit status s.
C1_ExitStatusIsCompilerStatus ==
    (Exited /\ statuses # <<>> /\ statuses[Len(statuses)] # 0)
        => exitStatus = statuses[Len(statuses)]

\* C2: with a version argument and a compiler that always succeeds, a finished
\* run has made exactly six invocations and printed exactly the six success
\* messages, in matrix order, no failure message, and has exit status 0.
C2_AllSucceed ==
    (Exited /\ Len(argv) >= 2 /\ AllZero(statuses))
        => /\ Len(calls) = 6
           /\ \A i \in 1..6 : /\ calls[i].GOOS = Chars(PlatOf(i))
                              /\ calls[i].GOARCH = Chars(ArchOf(i))
           /\ stdout = OkMsgs(6)
           /\ exitStatus = 0

C2_Witness ==
    Exited /\ Len(argv) >= 2 /\ AllZero(statuses) /\ Len(statuses) = 6

\* C3: if the compiler first fails on the k-th target, the builder has printed
\* k-1 success messages in order, then one failure message naming the k-th
\* target, has made exactly k invocations and makes no further one.
C3_FailFast ==
    \A k \in 1..6 :
        FirstFailure(k)
            => /\ Exited
               /\ Len(calls) = k /\ Len(statuses) = k
               /\ \A i \in 1..k : /\ calls[i].GOOS = Chars(PlatOf(i))
                                  /\ calls[i].GOARCH = Chars(ArchOf(i))
               /\ stdout = Append(OkMsgs(k-1),
                                  <<"Failed to build ", PlatOf(k), "-", ArchOf(k)>>)

C3_Witness == FirstFailure(3) /\ Exited /\ Len(calls) = 3

\* C4: with no argument beyond the program name the builder prints the usage
\* message, ends with exit status 1 and makes no compiler invocation.
C4_Usage ==
    /\ (Len(argv) = 1 /\ pc # "start")
          => /\ Exited
             /\ stdout = << <<"Usage: python3 build.py <version>">> >>
             /\ exitStatus = 1
    /\ Len(argv) = 1 => (calls = <<>> /\ files = <<>>)

C4_Witness == Len(argv) = 1 /\ Exited /\ stdout # <<>>

\* C5 (as stated): a compiler invocation occurs only in runs whose argument
\* list has exactly one argument beyond the program name.
C5_ExactlyOneArgument == calls # <<>> => Len(argv) = 2

\* C5 (amended): the builder requires at least one argument beyond the program
\* name: a finished run has made no compiler invocation exactly when there is
\* none; further arguments are ignored and the first one is the version.
C5_AtLeastOneArgument ==
    /\ calls # <<>> => Len(argv) >= 2
    /\ Exited => (calls = <<>> <=> Len(argv) < 2)
    /\ pc = "loop" => version = argv[2]

C5_Witness == Exited /\ Len(argv) = 3 /\ Len(calls) = 6

\* C6: the invocation made for target (a, p) selects OS p and architecture a
\* and is given the output path releases/lk-{p}-{a}-v{v}{suffix} with the
\* version v embedded exactly as passed.
C6_InvocationPath ==
    \A i \in 1..Len(calls) :
        /\ calls[i].GOOS = Chars(PlatOf(i))
        /\ calls[i].GOARCH = Chars(ArchOf(i))
        /\ calls[i].out = StatedPath(PlatOf(i), ArchOf(i), argv[2])

\* C7 (as stated): for every version string the output filename of a target
\* ends in ".exe" if and only if the platform is windows.
C7_ExeIffWindows ==
    pc = "formatted" => (EndsWith(PathText(cmd), <<".","e","x","e">>) <=> p = "windows")

\* C7 (amended): the suffix appended after the version is ".exe" if and only
\* if the platform is windows; so the output filename of every windows target
\* ends in ".exe", and that of a darwin or linux target ends in ".exe" exactly
\* when the version string itself ends in ".exe".
C7_SuffixIffWindows ==
    pc = "formatted"
        => /\ suffix = <<".","e","x","e">> <=> p = "windows"
           /\ suffix = <<>> <=> p # "windows"
           /\ PathText(cmd) = StatedPath(p, a, version)
           /\ EndsWith(PathText(cmd), <<".","e","x","e">>)
                 <=> (p = "windows" \/ EndsWith(version, <<".","e","x","e">>))

C7_Witness ==
    /\ pc = "formatted" /\ p = "linux"
    /\ EndsWith(version, <<".","e","x","e">>)
    /\ EndsWith(PathText(cmd), <<".","e","x","e">>)

\* C8: no rollback: the artifact of every successful invocation of the run is
\* still in place, written by that invocation, and every file that exists is
\* one of the six computed output paths.
C8_NoRollback ==
    pc \in {"loop", "exited"} /\ Len(argv) >= 2
        => /\ \A i \in 1..Len(calls) :
                 statuses[i] = 0
                    => LET f == StatedPath(PlatOf(i), ArchOf(i), argv[2])
                       IN  f \in DOMAIN files /\ files[f] = <<run, i>>
           /\ DOMAIN files \subseteq
                 {StatedPath(PlatOf(i), ArchOf(i), argv[2]) : i \in 1..6}

\* C9: a second run with the same version and an always-succeeding compiler
\* targets the same six output paths in the same order and overwrites them,
\* ends with exit status 0, and leaves the same set of files as the first.
C9_Idempotent ==
    (Exited /\ run >= 2 /\ Len(argv) >= 2
        /\ Len(prevStatuses) = 6 /\ AllZero(prevStatuses)
        /\ Len(statuses) = 6 /\ AllZero(statuses))
        => /\ Len(calls) = 6
           /\ [i \in 1..6 |-> calls[i].out] = [i \in 1..6 |-> prevCalls[i].out]
           /\ \A i \in 1..6 : files[calls[i].out] = <<run, i>>
           /\ prevExit = 0 /\ exitStatus = 0
           /\ DOMAIN files = DOMAIN filesAtStart

C9_Witness ==
    /\ Exited /\ run = 2 /\ Len(prevStatuses) = 6 /\ AllZero(prevStatuses)
    /\ Len(statuses) = 6 /\ AllZero(statuses) /\ exitStatus = 0

\* C10: the builder ends with exit status 0 only if all six targets were
\* invoked and every invocation returned zero.
C10_ZeroOnlyOnFullSuccess ==
    (Exited /\ exitStatus = 0)
        => (Len(statuses) = 6 /\ AllZero(statuses))

====
